---- MODULE Spec2Model ----
(***************************************************************************)
(* Model of the bank-export converter (package bank_converter).           *)
(*                                                                         *)
(* Free-text fields that the code only compares or copies (status,        *)
(* category, description, tag, purpose, owner) are TLA+ strings; the      *)
(* Cyrillic literals of the source are transliterated:                    *)
(*     "Perevody"   = "Переводы"      "Neizvestno" = "Неизвестно"         *)
(*     "Supermarkety" = "Супермаркеты"  "Zarplata" = "Зарплата"            *)
(*     "Pyaterochka" = "Пятёрочка"    "Eda" = "Еда"   "Zp" = "Зп"          *)
(*     "Dom" = "Дом"   "Kirill" = "Кирилл"                                 *)
(*     "Mezhdu svoimi schetami" = "Между своими счетами"                   *)
(*     "naznachenie" = the dict key "назначение"                           *)
(*     "Dohod" = "Доход"   "Rashod" = "Расход"   "Chej" = "Чей"             *)
(*     "Data" = "Дата"   "Summa" = "Сумма"   "Naznachenie" = "Назначение"  *)
(*     "Teg" = "Тег"   "Kommentarij" = "Комментарий"                       *)
(*     "Puteshestviya" = "Путешествия"   "Arenda" = "Аренда"               *)
(*     "Drug" = "Друг"   "Ivan I." = "Иван И."                             *)
(* Fields that the code parses (amount, operation_date) are sequences of  *)
(* one-character strings, so that the parsing is computed and not assumed.*)
(***************************************************************************)
EXTENDS Integers, Sequences, FiniteSets, TLC

VARIABLES
    config,        \* ConfigManager._data of the store the converter reads
    conv,          \* BankConverter: unknown_mappings and _seen_unknowns
    transactions,  \* the list of BankTransaction the caller holds
    last,          \* the last completed convert call (arguments, return value)
    file,          \* the config file: as it was loaded, or what save() wrote
    output,        \* the last call of the writer: its argument and what it wrote
    call,          \* the last call of a function of one argument, and its outcome
    app,           \* BankConverterApp: the fields of the window between handlers
    heap           \* the dicts of the ConfigManager class and of its instances

vars == <<config, conv, transactions, last, file, output, call, app, heap>>

\* ------------------------------------------------------------------------
\* Bounds of the model
\* ------------------------------------------------------------------------
MaxRows == 2

\* rows of a file that is converted and then written
MaxWriterRows == 3

\* characters of an amount string handed to parse_amount on its own
MaxAmountLen == 3

\* rows of a file the window loads
MaxAppRows == 2

\* files the window loads in one session
MaxLoads == 2

\* ------------------------------------------------------------------------
\* Character sequences and the str methods the parsers use
\* ------------------------------------------------------------------------
Quote == "\""
Space == " "
Nbsp == "nbsp"     \* the character '\xa0'

\* the decimal digits and their values
Digits == [c \in {"0", "1", "2", "3", "4", "5", "6", "7", "8", "9"} |->
              CASE c = "0" -> 0 [] c = "1" -> 1 [] c = "2" -> 2 [] c = "3" -> 3
                [] c = "4" -> 4 [] c = "5" -> 5 [] c = "6" -> 6 [] c = "7" -> 7
                [] c = "8" -> 8 [] c = "9" -> 9]

IsDigit(c) == c \in DOMAIN Digits

DigitVal(c) == Digits[c]

Contains(s, c) == \E i \in 1..Len(s) : s[i] = c

\* str.replace(a, b) for single characters
ReplaceChar(s, a, b) == [i \in 1..Len(s) |-> IF s[i] = a THEN b ELSE s[i]]

\* str.replace(a, '')
RECURSIVE RemoveChar(_, _)
RemoveChar(s, a) ==
    IF s = <<>> THEN <<>>
    ELSE IF Head(s) = a THEN RemoveChar(Tail(s), a)
    ELSE <<Head(s)>> \o RemoveChar(Tail(s), a)

RECURSIVE LStrip(_, _)
LStrip(s, cs) ==
    IF s # <<>> /\ Head(s) \in cs THEN LStrip(Tail(s), cs) ELSE s

RECURSIVE RStrip(_, _)
RStrip(s, cs) ==
    IF s # <<>> /\ s[Len(s)] \in cs THEN RStrip(SubSeq(s, 1, Len(s) - 1), cs) ELSE s

\* str.strip(chars); str.strip() is StripChars(s, Whitespace)
StripChars(s, cs) == RStrip(LStrip(s, cs), cs)

Whitespace == {Space, Nbsp}

\* index of the first occurrence of c in s from position i on, Len(s) + 1
\* when there is none
RECURSIVE FindFrom(_, _, _)
FindFrom(s, c, i) ==
    IF i > Len(s) \/ s[i] = c THEN i ELSE FindFrom(s, c, i + 1)

FirstIndex(s, c) == FindFrom(s, c, 1)

\* str.split(c): the list of the parts between the occurrences of c
RECURSIVE Split(_, _)
Split(s, c) ==
    LET i == FirstIndex(s, c) IN
    IF i > Len(s) THEN <<s>>
    ELSE <<SubSeq(s, 1, i - 1)>> \o Split(SubSeq(s, i + 1, Len(s)), c)

RECURSIVE ToNat(_)
ToNat(ds) ==
    IF ds = <<>> THEN 0 ELSE 10 * ToNat(SubSeq(ds, 1, Len(ds) - 1)) + DigitVal(ds[Len(ds)])

AllDigits(s) == \A i \in 1..Len(s) : IsDigit(s[i])

\* ------------------------------------------------------------------------
\* float values: a finite value is the decimal m / 10^k in lowest form,
\* nan and +-inf are the two special values float() also produces
\* ------------------------------------------------------------------------
RECURSIVE Normalize(_, _)
Normalize(m, k) ==
    IF k > 0 /\ m % 10 = 0 THEN Normalize(m \div 10, k - 1)
    ELSE [kind |-> "fin", m |-> m, k |-> k]

Fin(m, k) == Normalize(m, k)
NaN == [kind |-> "nan", m |-> 0, k |-> 0]
Inf(sign) == [kind |-> "inf", m |-> sign, k |-> 0]
Zero == Fin(0, 0)

\* comparisons of a float with 0; every comparison with nan is False
EqZero(v) == v.kind = "fin" /\ v.m = 0
GtZero(v) == v.kind # "nan" /\ v.m > 0
LtZero(v) == v.kind # "nan" /\ v.m < 0

\* abs(v)
Abs(v) == [v EXCEPT !.m = IF v.m < 0 THEN -v.m ELSE v.m]

\* float(s) for s made of signs, digits, points and lower-case letters: an
\* optional sign, then nan, inf, infinity, or digits with at most one point
\* and at least one digit. ok = FALSE stands for ValueError. (Exponents,
\* underscores and upper-case spellings are outside the strings modelled.)
ParseFloat(s) ==
    LET neg == s # <<>> /\ Head(s) = "-"
        body == IF s # <<>> /\ Head(s) \in {"+", "-"} THEN Tail(s) ELSE s
        sign == IF neg THEN -1 ELSE 1
        parts == Split(body, ".")
        ip == parts[1]
        fp == IF Len(parts) = 2 THEN parts[2] ELSE <<>>
    IN  IF body = <<"n", "a", "n">> THEN [ok |-> TRUE, val |-> NaN]
        ELSE IF body \in {<<"i", "n", "f">>, <<"i", "n", "f", "i", "n", "i", "t", "y">>}
             THEN [ok |-> TRUE, val |-> Inf(sign)]
        ELSE IF /\ Len(parts) <= 2
                /\ AllDigits(ip) /\ AllDigits(fp)
                /\ Len(ip) + Len(fp) > 0
             THEN [ok |-> TRUE, val |-> Fin(sign * ToNat(ip \o fp), Len(fp))]
        ELSE [ok |-> FALSE, val |-> Zero]

\* what a call evaluates to when an exception leaves it
Raise(exception) == [kind |-> "raise", m |-> 0, k |-> 0, exception |-> exception]

IsRaise(v) == v.kind = "raise"

\* parse_amount without its try/except: the ValueError of float() leaves it
parse_amount_uncaught(amount_str) ==
    IF amount_str = <<>> THEN Zero
    ELSE LET cleaned == RemoveChar(
                            RemoveChar(
                                ReplaceChar(StripChars(amount_str, {Quote}), ",", "."),
                                Space),
                            Nbsp)
             f == ParseFloat(cleaned)
         IN  IF f.ok THEN f.val ELSE Raise("ValueError")

parse_amount(amount_str) ==
    IF amount_str = <<>> THEN Zero
    ELSE LET cleaned == RemoveChar(
                            RemoveChar(
                                ReplaceChar(StripChars(amount_str, {Quote}), ",", "."),
                                Space),
                            Nbsp)
             f == ParseFloat(cleaned)
         IN  IF f.ok THEN f.val ELSE Zero

\* parse_date with the three parts of an ISO date kept in their order
parse_date_keep_order(date_str) ==
    IF date_str = <<>> THEN <<>>
    ELSE LET s1 == StripChars(StripChars(date_str, Whitespace), {Quote})
             s2 == IF Contains(s1, Space) THEN Split(s1, Space)[1] ELSE s1
             parts == Split(s2, "-")
         IN  IF Contains(s2, "-") /\ Len(parts) = 3
             THEN parts[1] \o <<".">> \o parts[2] \o <<".">> \o parts[3]
             ELSE s2

parse_date(date_str) ==
    IF date_str = <<>> THEN <<>>
    ELSE LET s1 == StripChars(StripChars(date_str, Whitespace), {Quote})
             s2 == IF Contains(s1, Space) THEN Split(s1, Space)[1] ELSE s1
             parts == Split(s2, "-")
         IN  IF Contains(s2, "-") /\ Len(parts) = 3
             THEN parts[3] \o <<".">> \o parts[2] \o <<".">> \o parts[1]
             ELSE s2

\* ------------------------------------------------------------------------
\* Values of the model
\* ------------------------------------------------------------------------
\* TransactionType
INCOME == "income"
EXPENSE == "expense"
SKIP == "skip"

\* Python's None, as returned by _convert_single
None == [is_none |-> TRUE]

AmtNeg == <<"-", "4", "3", "6", "3", ",", "0", "0">>        \* "-4363,00"
AmtPos == <<"+", "5", "0", "0", "0", ",", "0", "0">>        \* "+5000,00"
AmtZero == <<"0", ",", "0", "0">>                            \* "0,00"
AmtEmpty == <<>>                                             \* ""
AmtJunk == <<"1", ".", "2", ".", "3">>                       \* "1.2.3"
AmtNaN == <<"n", "a", "n">>                                  \* "nan"

DateRu == <<"2", "7", ".", "1", "2", ".", "2", "0", "2", "5">>   \* "27.12.2025"
DateIso == <<"2", "0", "2", "5", "-", "1", "2", "-", "2", "8">>  \* "2025-12-28"
DateJunk == <<"a", "-", "b">>                                    \* "a-b"
DateNewYear == <<"0", "1", ".", "0", "1", ".", "2", "0", "2", "6">>  \* "01.01.2026"
DateEarly == <<"0", "5", ".", "1", "2", ".", "2", "0", "2", "5">>    \* "05.12.2025"
DateZero == <<"0", "0", ".", "0", "0", ".", "0", "0", "0", "0">>     \* "00.00.0000"

BankTransaction(status, description, category, amount, operation_date) ==
    [operation_date |-> operation_date, status |-> status, amount |-> amount,
     category |-> category, description |-> description]

\* The rows a loaded file may hold: each drop filter, each branch of the
\* tag resolution and each branch of the type determination has its rows.
Rows ==
    {BankTransaction("OK", d, c, AmtNeg, DateRu) :
        d \in {"Pyaterochka", "Ivan I."}, c \in {"Supermarkety", "Perevody"}}
    \cup {BankTransaction("OK", "Pyaterochka", "", AmtNeg, DateRu),
          BankTransaction("OK", "", "Perevody", AmtNeg, DateRu),
          BankTransaction("OK", "Mezhdu svoimi schetami", "Perevody", AmtNeg, DateRu),
          BankTransaction("FAILED", "Ivan I.", "Supermarkety", AmtNeg, DateRu)}
    \cup {BankTransaction("OK", "Ivan I.", "Zarplata", a, DateIso) :
        a \in {AmtNeg, AmtNaN}}
    \cup {BankTransaction("OK", "Ivan I.", "Supermarkety", a, DateRu) :
        a \in {AmtNaN, AmtZero, AmtEmpty, AmtJunk}}
    \cup {BankTransaction("OK", "Ivan I.", "Supermarkety", AmtPos, DateJunk)}

\* dict literals
EmptyDict == <<>>
Put(d, key, value) == (key :> value) @@ d
Get(d, key, default) == IF key \in DOMAIN d THEN d[key] ELSE default

\* x in list
InList(x, list) == \E i \in 1..Len(list) : list[i] = x

\* The stores a converter may be constructed on. ConfigManager._load and
\* ConfigDialog._save can leave any mapping tables in _data; these are the
\* tables with and without the entries the rows use. A vendor override read
\* from the file may lack the key "naznachenie" or hold an empty one.
InitCategoryMappings ==
    {Put(EmptyDict, "Zarplata", "Zp"),
     Put(Put(EmptyDict, "Zarplata", "Zp"), "Supermarkety", "Eda"),
     Put(Put(Put(EmptyDict, "Zarplata", "Zp"), "Supermarkety", "Eda"),
         "Perevody", "Neizvestno")}

InitVendorOverrides ==
    {EmptyDict,
     Put(EmptyDict, "Pyaterochka", [tag |-> "Dom", naznachenie |-> "Magazin"]),
     Put(EmptyDict, "Pyaterochka", [tag |-> "Dom", naznachenie |-> ""]),
     Put(EmptyDict, "Pyaterochka", [tag |-> "Dom"])}

DefaultData(cm, vo) ==
    [owner |-> "Kirill",
     output_tags |-> <<"Zp", "Eda", "Dom", "Neizvestno">>,
     category_mappings |-> cm,
     vendor_overrides |-> vo,
     skip_descriptions |-> <<"Mezhdu svoimi schetami">>,
     income_categories |-> <<"Zarplata">>]

\* ------------------------------------------------------------------------
\* ConfigManager mutators (each is followed by save())
\* ------------------------------------------------------------------------
add_category_mapping(data, category, tag) ==
    [data EXCEPT !.category_mappings = Put(@, category, tag)]

add_vendor_override(data, vendor, tag, purpose) ==
    [data EXCEPT !.vendor_overrides = Put(@, vendor, [tag |-> tag, naznachenie |-> purpose])]

\* the config file before any save() of this run
AsLoaded == [written |-> FALSE]

\* ConfigManager.save: json.dump(self._data, f)
save(data) == [written |-> TRUE, data |-> data]

\* ------------------------------------------------------------------------
\* BankConverter
\* ------------------------------------------------------------------------
\* BankConverter.__init__
NewConverter == [unknown_mappings |-> <<>>, seen_unknowns |-> {}]

UnknownMapping(mapping_type, original_value, suggested_tag, suggested_purpose) ==
    [mapping_type |-> mapping_type, original_value |-> original_value,
     suggested_tag |-> suggested_tag, suggested_purpose |-> suggested_purpose]

\* Track with the membership test lost: every fallback row appends
TrackAlways(c, key, unknown) ==
    [unknown_mappings |-> Append(c.unknown_mappings, unknown),
     seen_unknowns |-> c.seen_unknowns \cup {key}]

\* one "if key not in self._seen_unknowns: add, append" block of _add_unknown
Track(c, key, unknown) ==
    IF key \notin c.seen_unknowns
    THEN [unknown_mappings |-> Append(c.unknown_mappings, unknown),
          seen_unknowns |-> c.seen_unknowns \cup {key}]
    ELSE c

\* _add_unknown with the category block lost: only transfers are tracked
_add_unknown_vendor_only(cfg, c, category, description) ==
    IF category = "Perevody"
       /\ description # "" /\ description \notin DOMAIN cfg.vendor_overrides
    THEN Track(c, <<"vendor", description>>,
               UnknownMapping("vendor", description, "Neizvestno", description))
    ELSE c

\* _add_unknown whose category block lost the test "if category"
_add_unknown_empty_category(cfg, c, category, description) ==
    LET c1 == IF category \notin DOMAIN cfg.category_mappings
              THEN Track(c, <<"category", category>>,
                         UnknownMapping("category", category, "Neizvestno", ""))
              ELSE c
    IN  IF category = "Perevody"
           /\ description # "" /\ description \notin DOMAIN cfg.vendor_overrides
        THEN Track(c1, <<"vendor", description>>,
                   UnknownMapping("vendor", description, "Neizvestno", description))
        ELSE c1

\* _add_unknown whose vendor block is entered for every category
_add_unknown_any_vendor(cfg, c, category, description) ==
    LET c1 == IF category # "" /\ category \notin DOMAIN cfg.category_mappings
              THEN Track(c, <<"category", category>>,
                         UnknownMapping("category", category, "Neizvestno", ""))
              ELSE c
    IN  IF description # "" /\ description \notin DOMAIN cfg.vendor_overrides
        THEN Track(c1, <<"vendor", description>>,
                   UnknownMapping("vendor", description, "Neizvestno", description))
        ELSE c1

\* _add_unknown with its two blocks in the other order
_add_unknown_vendor_first(cfg, c, category, description) ==
    LET c1 == IF category = "Perevody"
                 /\ description # "" /\ description \notin DOMAIN cfg.vendor_overrides
              THEN Track(c, <<"vendor", description>>,
                         UnknownMapping("vendor", description, "Neizvestno", description))
              ELSE c
    IN  IF category # "" /\ category \notin DOMAIN cfg.category_mappings
        THEN Track(c1, <<"category", category>>,
                   UnknownMapping("category", category, "Neizvestno", ""))
        ELSE c1

_add_unknown(cfg, c, category, description) ==
    LET c1 == IF category # "" /\ category \notin DOMAIN cfg.category_mappings
              THEN Track(c, <<"category", category>>,
                         UnknownMapping("category", category, "Neizvestno", ""))
              ELSE c
    IN  IF category = "Perevody"
           /\ description # "" /\ description \notin DOMAIN cfg.vendor_overrides
        THEN Track(c1, <<"vendor", description>>,
                   UnknownMapping("vendor", description, "Neizvestno", description))
        ELSE c1

\* _get_mapping with the two lookups in the other order
_get_mapping_category_first(cfg, c, category, description) ==
    IF category \in DOMAIN cfg.category_mappings
    THEN [tag |-> cfg.category_mappings[category], purpose |-> description, conv |-> c]
    ELSE IF description \in DOMAIN cfg.vendor_overrides
    THEN LET override == cfg.vendor_overrides[description]
         IN  [tag |-> override.tag,
              purpose |-> Get(override, "naznachenie", description),
              conv |-> c]
    ELSE [tag |-> "Neizvestno", purpose |-> description,
          conv |-> _add_unknown(cfg, c, category, description)]

\* _get_mapping with the category lookup keyed by the description
_get_mapping_wrong_key(cfg, c, category, description) ==
    IF description \in DOMAIN cfg.vendor_overrides
    THEN LET override == cfg.vendor_overrides[description]
         IN  [tag |-> override.tag,
              purpose |-> Get(override, "naznachenie", description),
              conv |-> c]
    ELSE IF description \in DOMAIN cfg.category_mappings
    THEN [tag |-> cfg.category_mappings[description], purpose |-> description, conv |-> c]
    ELSE [tag |-> "Neizvestno", purpose |-> description,
          conv |-> _add_unknown(cfg, c, category, description)]

\* _get_mapping that tracks the unknown before it looks anything up
_get_mapping_track_first(cfg, c, category, description) ==
    LET c1 == _add_unknown(cfg, c, category, description) IN
    IF description \in DOMAIN cfg.vendor_overrides
    THEN LET override == cfg.vendor_overrides[description]
         IN  [tag |-> override.tag,
              purpose |-> Get(override, "naznachenie", description),
              conv |-> c1]
    ELSE IF category \in DOMAIN cfg.category_mappings
    THEN [tag |-> cfg.category_mappings[category], purpose |-> description, conv |-> c1]
    ELSE [tag |-> "Neizvestno", purpose |-> description, conv |-> c1]

\* returns the pair (tag, purpose) and the converter after the call
_get_mapping(cfg, c, category, description) ==
    IF description \in DOMAIN cfg.vendor_overrides
    THEN LET override == cfg.vendor_overrides[description]
         IN  [tag |-> override.tag,
              purpose |-> Get(override, "naznachenie", description),
              conv |-> c]
    ELSE IF category \in DOMAIN cfg.category_mappings
    THEN [tag |-> cfg.category_mappings[category], purpose |-> description, conv |-> c]
    ELSE [tag |-> "Neizvestno", purpose |-> description,
          conv |-> _add_unknown(cfg, c, category, description)]

\* _determine_type with the sign tested before the income categories
_determine_type_sign_first(cfg, amount, category) ==
    IF GtZero(amount) THEN INCOME
    ELSE IF LtZero(amount) THEN EXPENSE
    ELSE IF InList(category, cfg.income_categories) THEN INCOME
    ELSE SKIP

_determine_type(cfg, amount, category) ==
    IF InList(category, cfg.income_categories) THEN INCOME
    ELSE IF GtZero(amount) THEN INCOME
    ELSE IF LtZero(amount) THEN EXPENSE
    ELSE SKIP

\* the status test of _convert_single with the comparison inverted
is_failed_inverted(tx) == tx.status = "OK"

\* "if tx.status != 'OK'"
is_failed(tx) == tx.status # "OK"

\* a return of _convert_single: the value and the converter after the call
Return(ret, c) == [ret |-> ret, conv |-> c, raised |-> FALSE]

\* _convert_single that copies operation_date without parse_date
_convert_single_raw_date(cfg, c, tx) ==
    IF is_failed(tx) THEN Return(None, c)
    ELSE IF InList(tx.description, cfg.skip_descriptions) THEN Return(None, c)
    ELSE LET amount == parse_amount(tx.amount) IN
         IF IsRaise(amount) THEN [ret |-> None, conv |-> c, raised |-> TRUE]
         ELSE IF EqZero(amount) THEN Return(None, c)
         ELSE LET tx_type == _determine_type(cfg, amount, tx.category) IN
              IF tx_type = SKIP THEN Return(None, c)
              ELSE LET m == _get_mapping(cfg, c, tx.category, tx.description) IN
                   Return([owner |-> cfg.owner,
                           date |-> tx.operation_date,
                           amount |-> Abs(amount),
                           purpose |-> m.purpose,
                           tag |-> m.tag,
                           comment |-> "",
                           transaction_type |-> tx_type],
                          m.conv)

\* returns the BudgetTransaction or None, and the converter after the call;
\* raised when an exception of a callee leaves it instead
_convert_single(cfg, c, tx) ==
    IF is_failed(tx) THEN Return(None, c)
    ELSE IF InList(tx.description, cfg.skip_descriptions) THEN Return(None, c)
    ELSE LET amount == parse_amount(tx.amount) IN
         IF IsRaise(amount) THEN [ret |-> None, conv |-> c, raised |-> TRUE]
         ELSE IF EqZero(amount) THEN Return(None, c)
         ELSE LET tx_type == _determine_type(cfg, amount, tx.category) IN
              IF tx_type = SKIP THEN Return(None, c)
              ELSE LET m == _get_mapping(cfg, c, tx.category, tx.description) IN
                   Return([owner |-> cfg.owner,
                           date |-> parse_date(tx.operation_date),
                           amount |-> Abs(amount),
                           purpose |-> m.purpose,
                           tag |-> m.tag,
                           comment |-> "",
                           transaction_type |-> tx_type],
                          m.conv)

\* convert without its first two statements
ResetUnknownsKeep(c) == c

\* the first two statements of convert
ResetUnknowns(c) == [unknown_mappings |-> <<>>, seen_unknowns |-> {}]

\* the loop of convert with result.insert(0, budget_tx) for result.append
RECURSIVE ConvertLoopPrepend(_, _, _, _)
ConvertLoopPrepend(cfg, txs, i, st) ==
    IF i > Len(txs) THEN st
    ELSE LET r == _convert_single(cfg, st.conv, txs[i])
             before == Len(st.conv.unknown_mappings)
             after == Len(r.conv.unknown_mappings)
         IN  IF r.raised THEN [st EXCEPT !.conv = r.conv, !.raised = TRUE]
             ELSE ConvertLoopPrepend(cfg, txs, i + 1,
                 [st EXCEPT
                  !.conv = r.conv,
                  !.result = IF r.ret # None THEN <<r.ret>> \o st.result ELSE st.result,
                  !.rows = Append(st.rows,
                               [ret |-> r.ret,
                                added |-> SubSeq(r.conv.unknown_mappings, before + 1, after)])])

\* The loop of convert from row i on. st.conv is the converter, st.result
\* the local list; st.rows records, per input row, what _convert_single
\* returned and which entries it appended to unknown_mappings. An exception
\* that leaves _convert_single leaves the loop and convert: st.raised.
RECURSIVE ConvertLoop(_, _, _, _)
ConvertLoop(cfg, txs, i, st) ==
    IF i > Len(txs) THEN st
    ELSE LET r == _convert_single(cfg, st.conv, txs[i])
             before == Len(st.conv.unknown_mappings)
             after == Len(r.conv.unknown_mappings)
         IN  IF r.raised THEN [st EXCEPT !.conv = r.conv, !.raised = TRUE]
             ELSE ConvertLoop(cfg, txs, i + 1,
                 [st EXCEPT
                  !.conv = r.conv,
                  !.result = IF r.ret # None THEN Append(st.result, r.ret) ELSE st.result,
                  !.rows = Append(st.rows,
                               [ret |-> r.ret,
                                added |-> SubSeq(r.conv.unknown_mappings, before + 1, after)])])

\* convert that learns: it maps the first unresolved category to the
\* suggested tag through config.add_category_mapping, which saves
convert_learning(cfg, c, txs) ==
    LET out == ConvertLoop(cfg, txs, 1,
                   [conv |-> ResetUnknowns(c), result |-> <<>>, rows |-> <<>>,
                    raised |-> FALSE, config |-> cfg, saved |-> FALSE])
        unknowns == out.conv.unknown_mappings
    IN  IF unknowns # <<>> /\ unknowns[1].mapping_type = "category"
        THEN [out EXCEPT
              !.config = add_category_mapping(cfg, unknowns[1].original_value,
                                              unknowns[1].suggested_tag),
              !.saved = TRUE]
        ELSE out

\* BankConverter.convert: the converter after the call, the returned pair
\* (result, unknown_mappings) and the per-row record; when raised, the call
\* returned nothing and result and rows are what the loop had built.
\* config is self.config._data after the call and saved tells whether the
\* call reached ConfigManager.save: the methods of BankConverter read the
\* properties of self.config and call none of its mutators.
convert(cfg, c, txs) ==
    ConvertLoop(cfg, txs, 1,
        [conv |-> ResetUnknowns(c), result |-> <<>>, rows |-> <<>>,
         raised |-> FALSE, config |-> cfg, saved |-> FALSE])

\* ------------------------------------------------------------------------
\* BudgetWriter
\* ------------------------------------------------------------------------
DigitChar(d) == CHOOSE c \in DOMAIN Digits : Digits[c] = d

\* str(n) for a natural number n
RECURSIVE NatToStr(_)
NatToStr(n) ==
    IF n < 10 THEN <<DigitChar(n)>> ELSE NatToStr(n \div 10) \o <<DigitChar(n % 10)>>

\* int(s) for s made of whitespace, signs and digits: whitespace around an
\* optional sign and at least one digit. ok = FALSE stands for ValueError.
\* (Underscores between digits are outside the strings modelled.)
ParseInt(s) ==
    LET t == StripChars(s, Whitespace)
        neg == t # <<>> /\ Head(t) = "-"
        body == IF t # <<>> /\ Head(t) \in {"+", "-"} THEN Tail(t) ELSE t
    IN  IF body # <<>> /\ AllDigits(body)
        THEN [ok |-> TRUE, val |-> IF neg THEN -ToNat(body) ELSE ToNat(body)]
        ELSE [ok |-> FALSE, val |-> 0]

\* what a call returns, or the exception that leaves it
Ok(val) == [raised |-> FALSE, val |-> val]
Raised(exception) == [raised |-> TRUE, val |-> <<>>, exception |-> exception]

\* int(amount) raises for nan and for the infinities. The amounts of the
\* rows modelled have at most two decimals, for which the expansion of
\* the double with two fractional digits is the decimal itself.
_format_amount(amount) ==
    CASE amount.kind = "nan" -> Raised("ValueError")
      [] amount.kind = "inf" -> Raised("OverflowError")
      [] amount.kind = "fin" /\ amount.k = 0 ->
            Ok((IF amount.m < 0 THEN <<"-">> ELSE <<>>) \o NatToStr(Abs(amount).m))
      [] amount.kind = "fin" /\ amount.k \in {1, 2} ->
            LET cents == Abs(amount).m * (IF amount.k = 1 THEN 10 ELSE 1)
                frac == cents % 100
            IN  Ok((IF amount.m < 0 THEN <<"-">> ELSE <<>>)
                   \o NatToStr(cents \div 100) \o <<",">>
                   \o <<DigitChar(frac \div 10), DigitChar(frac % 10)>>)

\* the sort key with the parts in the order of the string
_parse_date_for_sort_day_first(date_str) ==
    IF date_str = <<>> THEN <<0, 0, 0>>
    ELSE LET parts == Split(date_str, ".") IN
         IF Len(parts) = 3
         THEN LET year == ParseInt(parts[3])
                  month == ParseInt(parts[2])
                  day == ParseInt(parts[1])
              IN  IF year.ok /\ month.ok /\ day.ok
                  THEN <<day.val, month.val, year.val>>
                  ELSE <<0, 0, 0>>
         ELSE <<0, 0, 0>>

_parse_date_for_sort(date_str) ==
    IF date_str = <<>> THEN <<0, 0, 0>>
    ELSE LET parts == Split(date_str, ".") IN
         IF Len(parts) = 3
         THEN LET year == ParseInt(parts[3])
                  month == ParseInt(parts[2])
                  day == ParseInt(parts[1])
              IN  IF year.ok /\ month.ok /\ day.ok
                  THEN <<year.val, month.val, day.val>>
                  ELSE <<0, 0, 0>>
         ELSE <<0, 0, 0>>

\* a < b for tuples of three integers
TupleLess(a, b) ==
    \/ a[1] < b[1]
    \/ a[1] = b[1] /\ a[2] < b[2]
    \/ a[1] = b[1] /\ a[2] = b[2] /\ a[3] < b[3]

\* sorted(transactions, key=lambda x: self._parse_date_for_sort(x.date)):
\* ascending in the key, elements of equal keys in their input order. The
\* element at index i goes after the elements of a smaller key and after
\* the earlier elements of an equal key.
SortedByDate(txs) ==
    LET n == Len(txs)
        key == [i \in 1..n |-> _parse_date_for_sort(txs[i].date)]
        position == [i \in 1..n |->
                        1 + Cardinality({j \in 1..n :
                                \/ TupleLess(key[j], key[i])
                                \/ key[j] = key[i] /\ j < i})]
    IN  [p \in 1..n |-> txs[CHOOSE i \in 1..n : position[i] = p]]

\* the list comprehensions of write and to_clipboard_text
OfType(txs, transaction_type) ==
    SelectSeq(txs, LAMBDA tx : tx.transaction_type = transaction_type)

\* the header row of a section
Header == <<"Chej", "Data", "Summa", "Naznachenie", "Teg", "Kommentarij">>

\* The rows of the loop of a section from transaction i on, appended to
\* lines: the six fields of each transaction. An exception of
\* _format_amount leaves the loop with the lines written so far.
RECURSIVE WriteRows(_, _, _)
WriteRows(lines, txs, i) ==
    IF i > Len(txs) THEN Ok(lines)
    ELSE LET tx == txs[i]
             amount == _format_amount(tx.amount)
         IN  IF amount.raised
             THEN [raised |-> TRUE, val |-> lines, exception |-> amount.exception]
             ELSE WriteRows(Append(lines, <<tx.owner, tx.date, amount.val,
                                            tx.purpose, tx.tag, tx.comment>>),
                            txs, i + 1)

\* _write_section: the title row, the header row and the sorted rows
_write_section(lines, title, txs) ==
    WriteRows(lines \o <<<<title>>, Header>>, SortedByDate(txs), 1)

\* BudgetWriter.write: the rows of the file after the call (the file is
\* truncated when opened and keeps what was written before an exception)
write(txs) ==
    LET income == OfType(txs, INCOME)
        expenses == OfType(txs, EXPENSE)
        first == _write_section(<<>>, "Dohod", income)
    IN  IF first.raised THEN first
        ELSE _write_section(first.val \o <<<<>>, <<>>>>, "Rashod", expenses)

\* BudgetWriter.to_clipboard_text: the lines joined by "\n", each line the
\* fields joined by "\t"; nothing is returned when an exception leaves it
to_clipboard_text(txs) ==
    LET income == OfType(txs, INCOME)
        expenses == OfType(txs, EXPENSE)
        first == WriteRows(<<<<"Dohod">>, Header>>, SortedByDate(income), 1)
        second == WriteRows(first.val \o <<<<"">>, <<"">>, <<"Rashod">>, Header>>,
                            SortedByDate(expenses), 1)
    IN  IF first.raised THEN Raised(first.exception)
        ELSE IF second.raised THEN Raised(second.exception)
        ELSE second

\* ------------------------------------------------------------------------
\* State machine: a caller holding one store and one converter
\* ------------------------------------------------------------------------
NoCall == [called |-> FALSE]

\* no call of the writer yet
NoOutput == [method |-> "none"]

\* no function called on its own yet
NoFunctionCall == [name |-> "none", returned |-> FALSE]

\* no window constructed
NoApp == [constructed |-> FALSE]

\* no run of the handler of the convert button yet
NoRun == [shown |-> FALSE, saved |-> FALSE, passes |-> 0]

\* no ConfigManager constructed
NoHeap == [constructed |-> FALSE]

Init ==
    /\ \E cm \in InitCategoryMappings, vo \in InitVendorOverrides :
           config = DefaultData(cm, vo)
    /\ conv = NewConverter
    /\ transactions = <<>>
    /\ last = NoCall
    /\ file = AsLoaded
    /\ output = NoOutput
    /\ call = NoFunctionCall
    /\ app = NoApp
    /\ heap = NoHeap

\* the caller's list gets one more row of the set rows
LoadRow(rows) ==
    /\ Len(transactions) < MaxRows
    /\ \E tx \in rows : transactions' = Append(transactions, tx)
    /\ UNCHANGED <<config, conv, last, file, output, call, app, heap>>

\* a row of the file is read, before the file is converted
AppendRow ==
    /\ ~last.called
    /\ LoadRow(Rows)

\* converter.convert(transactions)
Convert ==
    /\ \E out \in {convert(config, conv, transactions)} :
           /\ conv' = out.conv
           /\ last' = [called |-> TRUE,
                       before |-> conv,
                       config |-> config,
                       transactions |-> transactions,
                       result |-> out.result,
                       unknowns |-> out.conv.unknown_mappings,
                       rows |-> out.rows,
                       raised |-> out.raised]
           /\ config' = out.config
           /\ file' = IF out.saved THEN save(out.config) ELSE file
    /\ UNCHANGED <<transactions, output, call, app, heap>>

\* One file on one store, converted any number of times.
Next ==
    \/ AppendRow
    \/ Convert

Spec == Init /\ [][Next]_vars

\* The rows of the calls that alternate with changes of the store and of
\* the list: the rows that reach _get_mapping, with and without override,
\* of a category, of the transfer category and of no category.
CallRows ==
    {BankTransaction("OK", "Ivan I.", "Supermarkety", AmtNeg, DateRu),
     BankTransaction("OK", "Ivan I.", "Perevody", AmtNeg, DateRu),
     BankTransaction("OK", "Pyaterochka", "", AmtNeg, DateIso)}

\* the caller's list gets one more row, before or after a convert call
AppendCallRow == LoadRow(CallRows)

\* config.add_category_mapping(category, tag)
AddCategoryMapping ==
    /\ \E m \in {<<"Supermarkety", "Eda">>, <<"Perevody", "Neizvestno">>} :
           config' = add_category_mapping(config, m[1], m[2])
    /\ file' = save(config')
    /\ UNCHANGED <<conv, transactions, last, output, call, app, heap>>

\* config.add_vendor_override(vendor, tag, purpose)
AddVendorOverride ==
    /\ \E vendor \in {"Pyaterochka"}, tag \in {"Dom"}, purpose \in {"Magazin"} :
           config' = add_vendor_override(config, vendor, tag, purpose)
    /\ file' = save(config')
    /\ UNCHANGED <<conv, transactions, last, output, call, app, heap>>

\* config.owner = value, as the window does with the text of its owner
\* field before it converts
SetOwner ==
    /\ \E value \in {"Anna"} : config' = [config EXCEPT !.owner = value]
    /\ UNCHANGED <<conv, transactions, last, file, output, call, app, heap>>

\* One converter on one store: calls on a growing list, with upserts of
\* the store and changes of the owner between the calls.
NextCalls ==
    \/ AppendCallRow
    \/ Convert
    \/ AddCategoryMapping
    \/ AddVendorOverride
    \/ SetOwner

SpecCalls == Init /\ [][NextCalls]_vars

\* The rows of a file whose conversion is written: expenses of the three
\* dates of the sort example, of a date that is no date, of no date and of
\* the date "00.00.0000", an income, and an income of the amount "nan".
WriterRows ==
    {BankTransaction("OK", "Ivan I.", "Supermarkety", AmtNeg, d) :
        d \in {DateRu, DateNewYear, DateEarly, DateJunk, <<>>, DateZero}}
    \cup {BankTransaction("OK", "Ivan I.", "Zarplata", a, DateRu) : a \in {AmtPos, AmtNaN}}

\* the store of the default configuration
InitWriter ==
    /\ config = DefaultData(
                    Put(Put(Put(EmptyDict, "Zarplata", "Zp"), "Supermarkety", "Eda"),
                        "Perevody", "Neizvestno"),
                    EmptyDict)
    /\ conv = NewConverter
    /\ transactions = <<>>
    /\ last = NoCall
    /\ file = AsLoaded
    /\ output = NoOutput
    /\ call = NoFunctionCall
    /\ app = NoApp
    /\ heap = NoHeap

\* a row of the file is read, before the file is converted
AppendWriterRow ==
    /\ ~last.called
    /\ Len(transactions) < MaxWriterRows
    /\ \E tx \in WriterRows : transactions' = Append(transactions, tx)
    /\ UNCHANGED <<config, conv, last, file, output, call, app, heap>>

\* writer.write(converted_transactions, path), enabled once converted
Write ==
    /\ last.called
    /\ \E out \in {write(last.result)} :
           output' = [method |-> "write", transactions |-> last.result,
                      raised |-> out.raised, lines |-> out.val]
    /\ UNCHANGED <<config, conv, transactions, last, file, call, app, heap>>

\* writer.to_clipboard_text(converted_transactions)
ToClipboardText ==
    /\ last.called
    /\ \E out \in {to_clipboard_text(last.result)} :
           output' = [method |-> "to_clipboard_text", transactions |-> last.result,
                      raised |-> out.raised, lines |-> out.val]
    /\ UNCHANGED <<config, conv, transactions, last, file, call, app, heap>>

\* One file, converted and then written to a CSV file or to the clipboard.
NextWriter ==
    \/ AppendWriterRow
    \/ Convert
    \/ Write
    \/ ToClipboardText

SpecWriter == InitWriter /\ [][NextWriter]_vars

\* ------------------------------------------------------------------------
\* The functions of one argument, each called on its own
\* ------------------------------------------------------------------------
\* every string of at most n of the characters cs
RECURSIVE StringsUpTo(_, _)
StringsUpTo(cs, n) ==
    IF n = 0 THEN {<<>>}
    ELSE LET shorter == StringsUpTo(cs, n - 1) IN
         shorter \cup {Append(s, c) : s \in shorter, c \in cs}

AmtThousands == <<"1", Nbsp, "2", "3", "4", ",", "5", "0">>      \* "1\xa0234,50"
AmtQuoted == <<Quote, "-", "1", Space, "0", "0", "0", Quote>>    \* '"-1 000"'
AmtInf == <<"-", "i", "n", "f">>                                 \* "-inf"

\* The cells of an amount column: the short strings of a sign, digits, the
\* comma, the space, the quote and the letters of "nan", and amounts as a
\* bank writes them.
AmountStrings ==
    StringsUpTo({"-", "1", "5", ",", Space, "n", "a", Quote}, MaxAmountLen)
    \cup {AmtNeg, AmtPos, AmtZero, AmtJunk, AmtThousands, AmtQuoted, AmtInf}

DateTime == DateRu \o <<Space, "1", "0", ":", "0", "0", ":", "0", "0">>  \* "27.12.2025 10:00:00"
DateSlash == <<"2", "7", "/", "1", "2", "/", "2", "0", "2", "5">>        \* "27/12/2025"
DateDashes == <<"1", "-", "2", "-", "3">>                                \* "1-2-3"
DateWords == <<"a", Space, "b">>                                         \* "a b"
DateMonth == <<"2", "0", "2", "5", "-", "1", "2">>                       \* "2025-12"

\* The cells of a date column: the accepted formats and strings of no
\* accepted format, bare, after a space or a quote, and before a space, a
\* quote or a time.
DateStrings ==
    {prefix \o date \o suffix :
        prefix \in {<<>>, <<Space>>, <<Quote>>},
        date \in {<<>>, DateRu, DateIso, DateJunk, DateZero, DateSlash,
                  DateDashes, DateWords, DateMonth},
        suffix \in {<<>>, <<Space>>, <<Quote>>,
                    <<Space, "1", "0", ":", "0", "0", ":", "0", "0">>}}

\* The amounts of transactions: decimals of at most two places, nan and
\* the infinities.
Amounts ==
    {Fin(m, k) : m \in {-123450, -550, -1, 0, 1, 5, 12, 99, 100, 1000, 4363, 123450},
                 k \in 0..2}
    \cup {NaN, Inf(1), Inf(-1)}

\* a call about to be made
Pending(name, arg) == [name |-> name, arg |-> arg, returned |-> FALSE]

\* a call that returned ret, or that an exception left
Returned(name, arg, ret) == [name |-> name, arg |-> arg, returned |-> TRUE, ret |-> ret]

\* a cell of an amount column, a cell of a date column or an amount of a
\* transaction is about to be handed to its function
InitFunctions ==
    /\ config = DefaultData(EmptyDict, EmptyDict)
    /\ conv = NewConverter
    /\ transactions = <<>>
    /\ last = NoCall
    /\ file = AsLoaded
    /\ output = NoOutput
    /\ \/ \E amount_str \in AmountStrings : call = Pending("parse_amount", amount_str)
       \/ \E date_str \in DateStrings : call = Pending("parse_date", date_str)
       \/ \E amount \in Amounts : call = Pending("_format_amount", amount)
    /\ app = NoApp
    /\ heap = NoHeap

\* parse_amount(amount_str)
ParseAmount ==
    /\ call.name = "parse_amount" /\ ~call.returned
    /\ call' = Returned("parse_amount", call.arg, parse_amount(call.arg))
    /\ UNCHANGED <<config, conv, transactions, last, file, output, app, heap>>

\* parse_date(date_str)
ParseDate ==
    /\ call.name = "parse_date" /\ ~call.returned
    /\ call' = Returned("parse_date", call.arg, parse_date(call.arg))
    /\ UNCHANGED <<config, conv, transactions, last, file, output, app, heap>>

\* writer._format_amount(amount)
FormatAmount ==
    /\ call.name = "_format_amount" /\ ~call.returned
    /\ call' = Returned("_format_amount", call.arg, _format_amount(call.arg))
    /\ UNCHANGED <<config, conv, transactions, last, file, output, app, heap>>

\* The parsers of the reader and the formatter of the writer, each applied
\* to an argument it may be given.
NextFunctions ==
    \/ ParseAmount
    \/ ParseDate
    \/ FormatAmount

SpecFunctions == InitFunctions /\ [][NextFunctions]_vars

\* ------------------------------------------------------------------------
\* BankConverterApp: the handlers of the window
\* ------------------------------------------------------------------------
\* ConfigManager.DEFAULT_CONFIG, with the entries of its tables that the
\* rows of the model use
DEFAULT_CONFIG ==
    DefaultData(
        Put(Put(Put(EmptyDict, "Zarplata", "Zp"), "Supermarkety", "Eda"),
            "Perevody", "Neizvestno"),
        Put(EmptyDict, "Pyaterochka", [tag |-> "Eda", naznachenie |-> "Pyaterochka"]))

\* {**a, **b}
Merge(a, b) ==
    [k \in DOMAIN a \cup DOMAIN b |-> IF k \in DOMAIN b THEN b[k] ELSE a[k]]

\* ConfigManager._load: the data of a new ConfigManager, given the
\* DEFAULT_CONFIG of the class and the file at config_path. A file written
\* by save() holds every key, so update() replaces every key of the copy
\* and the loop then merges the two tables with those of the defaults.
_load(defaults, f) ==
    IF f.written
    THEN [f.data EXCEPT
             !.category_mappings = Merge(defaults.category_mappings, @),
             !.vendor_overrides = Merge(defaults.vendor_overrides, @)]
    ELSE defaults

\* MappingDialog._save from entry i on: one upsert per entry, with the tag
\* of its combobox and, for a vendor, the text of its entry field
RECURSIVE SaveEntries(_, _, _, _, _)
SaveEntries(data, unknowns, tags, purposes, i) ==
    IF i > Len(unknowns) THEN data
    ELSE LET unknown == unknowns[i]
             purpose == IF purposes[i] = "" THEN unknown.original_value ELSE purposes[i]
         IN  SaveEntries(
                 IF unknown.mapping_type = "category"
                 THEN add_category_mapping(data, unknown.original_value, tags[i])
                 ELSE add_vendor_override(data, unknown.original_value, tags[i], purpose),
                 unknowns, tags, purposes, i + 1)

\* MappingDialog._save that leaves out the category entries
MappingDialog_save_vendors(data, unknowns, tags, purposes) ==
    LET vendors == {i \in 1..Len(unknowns) : unknowns[i].mapping_type = "vendor"} IN
    IF vendors = {} THEN data
    ELSE SaveEntries(data, SelectSeq(unknowns, LAMBDA u : u.mapping_type = "vendor"),
                     [i \in 1..Cardinality(vendors) |-> "Eda"],
                     [i \in 1..Cardinality(vendors) |-> ""], 1)

\* MappingDialog._save
MappingDialog_save(data, unknowns, tags, purposes) ==
    SaveEntries(data, unknowns, tags, purposes, 1)

\* _skip that stores the suggestions of the entries before it closes
MappingDialog_skip_saving(data, unknowns) ==
    SaveEntries(data, unknowns,
                [i \in 1..Len(unknowns) |-> unknowns[i].suggested_tag],
                [i \in 1..Len(unknowns) |-> unknowns[i].suggested_purpose], 1)

\* MappingDialog._skip, also bound to the close button of the window: the
\* store the dialog was given is left as it is
MappingDialog_skip(data, unknowns) == data

\* ConfigDialog._save: the owner and the tables of the dialog replace
\* those of _data
ConfigDialog_save(data, owner, category_mappings, vendor_overrides) ==
    [data EXCEPT !.owner = owner,
                 !.category_mappings = category_mappings,
                 !.vendor_overrides = vendor_overrides]

\* dict without the key k
Without(dict, k) == [x \in DOMAIN dict \ {k} |-> dict[x]]

\* The rows of the files the window loads: a transfer, an expense of a
\* category the defaults lack and an expense of no category.
AppRows ==
    {BankTransaction("OK", "Ivan I.", "Perevody", AmtNeg, DateRu),
     BankTransaction("OK", "Aeroflot", "Puteshestviya", AmtNeg, DateIso),
     BankTransaction("OK", "Kiosk", "", AmtNeg, DateRu)}

\* what reader.read(path) returns for the files the user may choose
AppFiles == UNION {[1..n -> AppRows] : n \in 0..MaxAppRows}

\* the tags the user picks in the comboboxes of MappingDialog
DialogTags == {"Eda", "Neizvestno"}

\* the texts of the entry field of a vendor row: emptied, typed
DialogPurposes(unknown) ==
    IF unknown.mapping_type = "vendor"
    THEN {"", "Drug"}
    ELSE {unknown.suggested_purpose}

\* BankConverterApp.__init__ on the store data: a converter on it, no
\* transactions, the convert, export and copy buttons disabled
NewApp(data) ==
    /\ config = data
    /\ conv = NewConverter
    /\ transactions = <<>>
    /\ last = NoCall
    /\ file = AsLoaded
    /\ output = NoOutput
    /\ call = NoFunctionCall
    /\ app = [constructed |-> TRUE,
              converted_transactions |-> <<>>,
              owner_var |-> "Kirill",
              convert_btn |-> "disabled",
              export_btn |-> "disabled",
              loads |-> 0,
              run |-> NoRun]
    /\ heap = NoHeap

\* _load_file: raw_transactions = reader.read(path), convert enabled
\* (loads counts the files of the session)
LoadFile ==
    /\ app.constructed /\ app.loads < MaxLoads
    /\ \E rows \in AppFiles : transactions' = rows
    /\ app' = [app EXCEPT !.convert_btn = "normal", !.loads = @ + 1]
    /\ UNCHANGED <<config, conv, last, file, output, call, heap>>

\* the end of _convert: the fields after the pass out of the converter c
\* on the store cfg, with what the dialog did
ConvertDone(cfg, c, out, first, shown, saved, passes) ==
    /\ config' = cfg
    /\ conv' = out.conv
    /\ file' = IF saved THEN save(cfg) ELSE file
    /\ last' = [called |-> TRUE,
                before |-> c,
                config |-> cfg,
                transactions |-> transactions,
                result |-> out.result,
                unknowns |-> out.conv.unknown_mappings,
                rows |-> out.rows,
                raised |-> out.raised]
    /\ app' = [app EXCEPT !.converted_transactions = out.result,
                          !.export_btn = "normal",
                          !.run = [shown |-> shown, saved |-> saved, passes |-> passes,
                                   transactions |-> transactions,
                                   first_result |-> first.result,
                                   first_unknowns |-> first.conv.unknown_mappings]]

\* _convert: the owner of the field is stored, the first pass runs, and
\* when it leaves unknowns MappingDialog is shown: closed with skip or with
\* the close button nothing more happens; closed with save every entry is
\* upserted and a new converter converts again.
AppConvert ==
    /\ app.constructed /\ app.convert_btn = "normal"
    /\ \E cfg \in {[config EXCEPT !.owner = app.owner_var]} :
       \E first \in {convert(cfg, conv, transactions)} :
       \E unknowns \in {first.conv.unknown_mappings} :
           IF unknowns = <<>>
           THEN ConvertDone(cfg, conv, first, first, FALSE, FALSE, 1)
           ELSE \/ \E skipped \in {MappingDialog_skip(cfg, unknowns)} :
                       ConvertDone(skipped, conv, first, first, TRUE, FALSE, 1)
                \/ \E tags \in [1..Len(unknowns) -> DialogTags] :
                   \E purposes \in {p \in [1..Len(unknowns) -> {"", "Drug"}] :
                                       \A i \in 1..Len(unknowns) :
                                           p[i] \in DialogPurposes(unknowns[i])} :
                   \E saved \in {MappingDialog_save(cfg, unknowns, tags, purposes)} :
                   \E second \in {convert(saved, NewConverter, transactions)} :
                       ConvertDone(saved, NewConverter, second, first, TRUE, TRUE, 2)
    /\ UNCHANGED <<transactions, output, call, heap>>

\* _export: writer.write(converted_transactions, path)
Export ==
    /\ app.constructed /\ app.export_btn = "normal"
    /\ \E out \in {write(app.converted_transactions)} :
           output' = [method |-> "write", transactions |-> app.converted_transactions,
                      raised |-> out.raised, lines |-> out.val]
    /\ UNCHANGED <<config, conv, transactions, last, file, call, app, heap>>

\* _edit_config with the dialog saved: ConfigDialog._save stores the tables
\* of the dialog, with a category added or deleted, and saves; the window
\* then takes a new ConfigManager, loaded from the file, and a new
\* converter on it. (A dialog that is cancelled changes nothing.)
EditConfig ==
    /\ app.constructed
    /\ \E category_mappings \in
              {Put(config.category_mappings, "Puteshestviya", "Eda"),
               Without(config.category_mappings, "Perevody")} :
       \E data \in {ConfigDialog_save(config, config.owner, category_mappings,
                                      config.vendor_overrides)} :
           /\ file' = save(data)
           /\ config' = _load(DEFAULT_CONFIG, file')
           /\ app' = [app EXCEPT !.owner_var = config'.owner]
    /\ conv' = NewConverter
    /\ UNCHANGED <<transactions, last, output, call, heap>>

\* The window: files are loaded, converted, exported, and the
\* configuration is edited, in any order the buttons allow.
NextApp ==
    \/ LoadFile
    \/ AppConvert
    \/ Export
    \/ EditConfig

\* the window started on the defaults
InitApp == NewApp(DEFAULT_CONFIG)

SpecApp == InitApp /\ [][NextApp]_vars

\* a file is loaded before the convert button is first pressed
LoadFirstFile ==
    /\ app.constructed /\ app.run.passes = 0
    /\ LoadFile

\* The convert button alone: a file is loaded and then converted any
\* number of times, with the mapping dialog saved or skipped.
NextDialog ==
    \/ LoadFirstFile
    \/ AppConvert

\* the window on a store with and without the categories of the rows
InitDialog == \E cm \in InitCategoryMappings : NewApp(DefaultData(cm, EmptyDict))

SpecDialog == InitDialog /\ [][NextDialog]_vars

\* ------------------------------------------------------------------------
\* ConfigManager: the class, its instances and the objects they share
\* ------------------------------------------------------------------------
\* the ConfigManager objects of a process
Instances == {"a", "b"}

\* the keys of _data whose values (two dicts and a list) the methods of
\* ConfigManager change in place
MutableKeys == {"category_mappings", "vendor_overrides", "skip_descriptions"}

NotCreated == [created |-> FALSE]

\* self._data of instance i: a key in shared holds the very object that
\* DEFAULT_CONFIG holds under that key, any other key a value of its own
Data(h, i) ==
    [key \in DOMAIN h.instances[i].own |->
        IF key \in h.instances[i].shared
        THEN h.DEFAULT_CONFIG[key]
        ELSE h.instances[i].own[key]]

\* self._data[key] of instance i is changed in place to value: the object
\* changes, for every holder of it
ChangeInPlace(h, i, key, value) ==
    IF key \in h.instances[i].shared
    THEN [h EXCEPT !.DEFAULT_CONFIG[key] = value]
    ELSE [h EXCEPT !.instances[i].own[key] = value]

\* the last method that ran, on which instance
Op(h, name, i) == [h EXCEPT !.op = [name |-> name, instance |-> i]]

\* list.append(x), list.remove(x)
Remove(list, x) == SelectSeq(list, LAMBDA y : y # x)

\* the class is loaded, no instance exists and no config file exists
InitConfig ==
    /\ config = DEFAULT_CONFIG
    /\ conv = NewConverter
    /\ transactions = <<>>
    /\ last = NoCall
    /\ file = AsLoaded
    /\ output = NoOutput
    /\ call = NoFunctionCall
    /\ app = NoApp
    /\ heap = [constructed |-> TRUE,
               DEFAULT_CONFIG |-> DEFAULT_CONFIG,
               instances |-> [i \in Instances |-> NotCreated],
               op |-> [name |-> "none", instance |-> "none"]]

\* ConfigManager(): _data = _load(). Without a file _data is
\* DEFAULT_CONFIG.copy(), a new dict whose values are the objects of
\* DEFAULT_CONFIG; with a file every key holds an object of its own.
NewConfigManager ==
    /\ heap.constructed
    /\ \E i \in Instances :
           /\ ~heap.instances[i].created
           /\ heap' = Op([heap EXCEPT !.instances[i] =
                             [created |-> TRUE,
                              own |-> _load(heap.DEFAULT_CONFIG, file),
                              shared |-> IF file.written THEN {} ELSE MutableKeys]],
                         "__init__", i)
    /\ UNCHANGED <<config, conv, transactions, last, file, output, call, app>>

\* instance i ran the method name, which changed _data[key] in place to
\* the value it has in data, and saved
ChangedAndSaved(i, name, key, data) ==
    /\ heap' = Op(ChangeInPlace(heap, i, key, data[key]), name, i)
    /\ file' = save(Data(heap', i))

\* ConfigManager.add_category_mapping(category, tag)
ManagerAddCategoryMapping ==
    /\ heap.constructed
    /\ \E i \in Instances :
           /\ heap.instances[i].created
           /\ ChangedAndSaved(i, "add_category_mapping", "category_mappings",
                              add_category_mapping(Data(heap, i), "Puteshestviya", "Eda"))
    /\ UNCHANGED <<config, conv, transactions, last, output, call, app>>

\* ConfigManager.add_vendor_override(vendor, tag, purpose)
ManagerAddVendorOverride ==
    /\ heap.constructed
    /\ \E i \in Instances :
           /\ heap.instances[i].created
           /\ ChangedAndSaved(i, "add_vendor_override", "vendor_overrides",
                              add_vendor_override(Data(heap, i), "Ivan I.", "Dom", "Arenda"))
    /\ UNCHANGED <<config, conv, transactions, last, output, call, app>>

\* ConfigManager.add_skip_description(description): appended and saved
\* unless the list holds it
ManagerAddSkipDescription ==
    /\ heap.constructed
    /\ \E i \in Instances, description \in {"Ivan I."} :
           /\ heap.instances[i].created
           /\ IF InList(description, Data(heap, i).skip_descriptions)
              THEN heap' = Op(heap, "add_skip_description", i) /\ file' = file
              ELSE ChangedAndSaved(i, "add_skip_description", "skip_descriptions",
                       [Data(heap, i) EXCEPT !.skip_descriptions = Append(@, description)])
    /\ UNCHANGED <<config, conv, transactions, last, output, call, app>>

\* ConfigManager.remove_skip_description(description): removed and saved
\* when the list holds it
ManagerRemoveSkipDescription ==
    /\ heap.constructed
    /\ \E i \in Instances, description \in {"Mezhdu svoimi schetami"} :
           /\ heap.instances[i].created
           /\ IF InList(description, Data(heap, i).skip_descriptions)
              THEN ChangedAndSaved(i, "remove_skip_description", "skip_descriptions",
                       [Data(heap, i) EXCEPT !.skip_descriptions = Remove(@, description)])
              ELSE heap' = Op(heap, "remove_skip_description", i) /\ file' = file
    /\ UNCHANGED <<config, conv, transactions, last, output, call, app>>

\* ConfigDialog._save on instance i, with a category deleted in the
\* dialog: the tables and the list of the dialog are new objects that
\* replace those of _data; then save()
ConfigDialogSave ==
    /\ heap.constructed
    /\ \E i \in Instances, category \in {"Perevody"} :
           /\ heap.instances[i].created
           /\ category \in DOMAIN Data(heap, i).category_mappings
           /\ heap' = Op([heap EXCEPT !.instances[i] =
                             [created |-> TRUE,
                              own |-> ConfigDialog_save(
                                          Data(heap, i), Data(heap, i).owner,
                                          Without(Data(heap, i).category_mappings, category),
                                          Data(heap, i).vendor_overrides),
                              shared |-> {}]],
                         "ConfigDialog._save", i)
           /\ file' = save(Data(heap', i))
    /\ UNCHANGED <<config, conv, transactions, last, output, call, app>>

\* One process: ConfigManager objects are constructed on the one config
\* path, changed by their methods and by the configuration dialog.
NextConfig ==
    \/ NewConfigManager
    \/ ManagerAddCategoryMapping
    \/ ManagerAddVendorOverride
    \/ ManagerAddSkipDescription
    \/ ManagerRemoveSkipDescription
    \/ ConfigDialogSave

SpecConfig == InitConfig /\ [][NextConfig]_vars

\* ------------------------------------------------------------------------
\* The last convert call, row by row
\* ------------------------------------------------------------------------
RowIdx == 1..Len(last.transactions)

\* row i of the call was emitted (its _convert_single returned a transaction)
Kept(i) == last.rows[i].ret # None

HasOverride(i) == last.transactions[i].description \in DOMAIN last.config.vendor_overrides

HasCategoryMapping(i) == last.transactions[i].category \in DOMAIN last.config.category_mappings

\* row i was emitted and resolved by neither table
Fallback(i) == Kept(i) /\ ~HasOverride(i) /\ ~HasCategoryMapping(i)

UnknownKey(u) == <<u.mapping_type, u.original_value>>

\* ------------------------------------------------------------------------
\* Claims
\* ------------------------------------------------------------------------

\* C1: every emitted row whose description has a vendor override carries the
\* override's tag, also when its category has a category mapping.
C1_VendorPrecedence ==
    last.called =>
        \A i \in RowIdx :
            (Kept(i) /\ HasOverride(i)) =>
                last.rows[i].ret.tag
                    = last.config.vendor_overrides[last.transactions[i].description].tag

\* an emitted row with an override and a category mapping of another tag
C1_Witness ==
    /\ last.called
    /\ \E i \in RowIdx :
        /\ Kept(i) /\ HasOverride(i) /\ HasCategoryMapping(i)
        /\ last.config.category_mappings[last.transactions[i].category]
               # last.config.vendor_overrides[last.transactions[i].description].tag
        /\ last.rows[i].ret.tag = "Dom"

\* C2: every emitted amount is strictly greater than 0, and a row whose
\* parsed amount is 0 is never emitted.
C2_ZeroDropPositive ==
    last.called =>
        /\ \A j \in 1..Len(last.result) : GtZero(last.result[j].amount)
        /\ \A i \in RowIdx :
               EqZero(parse_amount(last.transactions[i].amount)) => ~Kept(i)

\* C3: no two entries of the returned unresolved list have the same
\* (mapping_type, original_value).
C3_UnknownDedup ==
    last.called =>
        \A i, j \in 1..Len(last.unknowns) :
            i # j => UnknownKey(last.unknowns[i]) # UnknownKey(last.unknowns[j])

\* two fallback rows of one call share a non-empty category
C3_Witness ==
    /\ last.called
    /\ \E i, j \in RowIdx :
        /\ i < j /\ Fallback(i) /\ Fallback(j)
        /\ last.transactions[i].category = last.transactions[j].category
        /\ last.transactions[i].category = "Perevody"
    /\ Len(last.unknowns) = 2

\* C4: what a call returns is what a newly constructed converter returns
\* for the same rows and the same store: nothing of an earlier call is left.
C4_NoHiddenState ==
    last.called =>
        LET fresh == convert(last.config, NewConverter, last.transactions) IN
        /\ last.result = fresh.result
        /\ last.unknowns = fresh.conv.unknown_mappings

\* the converter entered the call with unknowns of an earlier call, one of
\* which the call reports again
C4_Witness ==
    /\ last.called
    /\ last.before.seen_unknowns # {}
    /\ \E i \in 1..Len(last.unknowns) :
           UnknownKey(last.unknowns[i]) \in last.before.seen_unknowns

\* C5: an emitted row of an income category is Income with the absolute
\* amount; any other emitted row is Income for a positive amount and
\* Expense for a negative one.
C5_TypeDetermination ==
    last.called =>
        \A i \in RowIdx :
            Kept(i) =>
                LET tx == last.transactions[i]
                    amount == parse_amount(tx.amount)
                    out == last.rows[i].ret
                IN  IF InList(tx.category, last.config.income_categories)
                    THEN out.transaction_type = INCOME /\ out.amount = Abs(amount)
                    ELSE /\ GtZero(amount) => out.transaction_type = INCOME
                         /\ LtZero(amount) => out.transaction_type = EXPENSE
                         /\ GtZero(amount) \/ LtZero(amount)

\* an income-category row with a negative amount was emitted as Income
C5_Witness ==
    /\ last.called
    /\ \E i \in RowIdx :
        /\ Kept(i)
        /\ InList(last.transactions[i].category, last.config.income_categories)
        /\ LtZero(parse_amount(last.transactions[i].amount))
        /\ last.rows[i].ret.transaction_type = INCOME
        /\ last.rows[i].ret.amount = Fin(4363, 0)

\* C6: an emitted row has status "OK" and a description outside
\* skip_descriptions.
C6_DropFilters ==
    last.called =>
        \A i \in RowIdx :
            Kept(i) =>
                /\ last.transactions[i].status = "OK"
                /\ ~InList(last.transactions[i].description, last.config.skip_descriptions)

\* a failed row and a skip-listed row, both with a non-zero amount, dropped
C6_Witness ==
    /\ last.called
    /\ \E i, j \in RowIdx :
        /\ last.transactions[i].status # "OK"
        /\ ~EqZero(parse_amount(last.transactions[i].amount))
        /\ ~Kept(i)
        /\ last.transactions[j].status = "OK"
        /\ InList(last.transactions[j].description, last.config.skip_descriptions)
        /\ ~EqZero(parse_amount(last.transactions[j].amount))
        /\ ~Kept(j)

\* C7: an emitted row without vendor override whose category is mapped has
\* the mapped tag and its description as purpose, and appends nothing to
\* the unresolved list.
C7_CategoryResolution ==
    last.called =>
        \A i \in RowIdx :
            (Kept(i) /\ ~HasOverride(i) /\ HasCategoryMapping(i)) =>
                /\ last.rows[i].ret.tag
                       = last.config.category_mappings[last.transactions[i].category]
                /\ last.rows[i].ret.purpose = last.transactions[i].description
                /\ last.rows[i].added = <<>>

\* the end-to-end scenario: OK, "-4363,00", a category mapped to "Eda"
C7_Witness ==
    /\ last.called
    /\ last.transactions
           = <<BankTransaction("OK", "Pyaterochka", "Supermarkety", AmtNeg, DateRu)>>
    /\ last.config.vendor_overrides = EmptyDict
    /\ last.result = <<[owner |-> "Kirill", date |-> DateRu, amount |-> Fin(4363, 0),
                        purpose |-> "Pyaterochka", tag |-> "Eda", comment |-> "",
                        transaction_type |-> EXPENSE]>>
    /\ last.unknowns = <<>>

\* C8 as stated: every fallback row has the sentinel tag, its description as
\* purpose, and an entry for its category in the returned unresolved list.
C8_FallbackEscalated ==
    last.called =>
        \A i \in RowIdx :
            Fallback(i) =>
                /\ last.rows[i].ret.tag = "Neizvestno"
                /\ last.rows[i].ret.purpose = last.transactions[i].description
                /\ \E k \in 1..Len(last.unknowns) :
                       UnknownKey(last.unknowns[k])
                           = <<"category", last.transactions[i].category>>

\* C8 amended: every fallback row has the sentinel tag and its description
\* as purpose; the returned unresolved list has an entry for its category
\* exactly when that category is not the empty string.
C8_FallbackEscalatedNonEmpty ==
    last.called =>
        \A i \in RowIdx :
            Fallback(i) =>
                /\ last.rows[i].ret.tag = "Neizvestno"
                /\ last.rows[i].ret.purpose = last.transactions[i].description
                /\ (last.transactions[i].category # "")
                       <=> \E k \in 1..Len(last.unknowns) :
                               UnknownKey(last.unknowns[k])
                                   = <<"category", last.transactions[i].category>>

\* a fallback row of a non-empty category and one of the empty category
C8_Witness ==
    /\ last.called
    /\ \E i, j \in RowIdx :
        /\ Fallback(i) /\ last.transactions[i].category = "Supermarkety"
        /\ Fallback(j) /\ last.transactions[j].category = ""
    /\ Len(last.unknowns) = 1

\* C9: an emitted row with a vendor override has the override's purpose when
\* that is non-empty, and its own description when the override's purpose
\* is empty or absent.
C9_VendorPurposeFallback ==
    last.called =>
        \A i \in RowIdx :
            (Kept(i) /\ HasOverride(i)) =>
                LET tx == last.transactions[i]
                    override == last.config.vendor_overrides[tx.description]
                    purpose == Get(override, "naznachenie", "")
                IN  last.rows[i].ret.purpose
                        = IF purpose # "" THEN purpose ELSE tx.description

\* C10: only fallback rows append to the unresolved list, and every entry
\* of the returned list comes from a fallback row: a category entry from a
\* row of that category, a vendor entry from a transfer row of that
\* description.
C10_UnknownsOnlyFromFallback ==
    last.called =>
        /\ \A i \in RowIdx : last.rows[i].added # <<>> => Fallback(i)
        /\ \A k \in 1..Len(last.unknowns) :
               \E i \in RowIdx :
                   /\ Fallback(i)
                   /\ \/ UnknownKey(last.unknowns[k])
                             = <<"category", last.transactions[i].category>>
                      \/ /\ UnknownKey(last.unknowns[k])
                                = <<"vendor", last.transactions[i].description>>
                         /\ last.transactions[i].category = "Perevody"

\* a dropped zero-amount row and an override row of the unmapped transfer
\* category in one call, which returns no unresolved mapping
C10_Witness ==
    /\ last.called
    /\ \E i, j \in RowIdx :
        /\ ~Kept(i) /\ EqZero(parse_amount(last.transactions[i].amount))
        /\ ~HasCategoryMapping(i)
        /\ Kept(j) /\ HasOverride(j) /\ ~HasCategoryMapping(j)
        /\ last.transactions[j].category = "Perevody"
    /\ last.unknowns = <<>>

\* the entries of one mapping type in the returned unresolved list
UnknownsOfType(mapping_type) ==
    {k \in 1..Len(last.unknowns) : last.unknowns[k].mapping_type = mapping_type}

\* C11: the returned unresolved list has an entry (category, c) exactly
\* when some fallback row of the call has the non-empty category c, absent
\* from category_mappings; every category entry suggests the sentinel tag
\* and the empty purpose; no entry has an empty original_value.
C11_CategoryWorklist ==
    last.called =>
        /\ \A c \in {last.transactions[i].category : i \in RowIdx}
                   \cup {last.unknowns[k].original_value : k \in UnknownsOfType("category")} :
               (\E k \in UnknownsOfType("category") : last.unknowns[k].original_value = c)
                   <=> \E i \in RowIdx :
                           /\ Kept(i) /\ ~HasOverride(i)
                           /\ last.transactions[i].category = c
                           /\ c # ""
                           /\ c \notin DOMAIN last.config.category_mappings
        /\ \A k \in UnknownsOfType("category") :
               /\ last.unknowns[k].suggested_tag = "Neizvestno"
               /\ last.unknowns[k].suggested_purpose = ""
        /\ \A k \in 1..Len(last.unknowns) : last.unknowns[k].original_value # ""

\* a call with a fallback row of no category, a fallback row of an unmapped
\* category and an emitted row of a mapped one: one category entry
C11_Witness ==
    /\ last.called
    /\ \E i, j \in RowIdx :
        /\ Fallback(i) /\ last.transactions[i].category = ""
        /\ Fallback(j) /\ last.transactions[j].category = "Perevody"
        /\ last.transactions[j].description = ""
    /\ last.unknowns = <<UnknownMapping("category", "Perevody", "Neizvestno", "")>>

\* C12: the returned unresolved list has an entry (vendor, d) exactly when
\* some fallback row of the call has the category "Perevody" and the
\* non-empty description d, absent from vendor_overrides; every vendor entry
\* suggests the sentinel tag and d as purpose; a fallback row of another
\* category appends no vendor entry.
C12_VendorWorklist ==
    last.called =>
        /\ \A d \in {last.transactions[i].description : i \in RowIdx}
                   \cup {last.unknowns[k].original_value : k \in UnknownsOfType("vendor")} :
               (\E k \in UnknownsOfType("vendor") : last.unknowns[k].original_value = d)
                   <=> \E i \in RowIdx :
                           /\ Kept(i) /\ ~HasCategoryMapping(i)
                           /\ last.transactions[i].category = "Perevody"
                           /\ last.transactions[i].description = d
                           /\ d # ""
                           /\ d \notin DOMAIN last.config.vendor_overrides
        /\ \A k \in UnknownsOfType("vendor") :
               /\ last.unknowns[k].suggested_tag = "Neizvestno"
               /\ last.unknowns[k].suggested_purpose = last.unknowns[k].original_value
        /\ \A i \in RowIdx :
               last.transactions[i].category # "Perevody" =>
                   \A k \in 1..Len(last.rows[i].added) :
                       last.rows[i].added[k].mapping_type # "vendor"

\* a fallback transfer row and a fallback row of another unmapped category,
\* both of the description "Ivan I.": one vendor entry, from the transfer
C12_Witness ==
    /\ last.called
    /\ \E i, j \in RowIdx :
        /\ Fallback(i) /\ last.transactions[i].category = "Supermarkety"
        /\ last.rows[i].added = <<UnknownMapping("category", "Supermarkety", "Neizvestno", "")>>
        /\ Fallback(j) /\ last.transactions[j].category = "Perevody"
        /\ last.rows[j].added
               = <<UnknownMapping("category", "Perevody", "Neizvestno", ""),
                   UnknownMapping("vendor", "Ivan I.", "Neizvestno", "Ivan I.")>>

\* C13: every row that passes the status, skip-list and zero-amount filters
\* is emitted, as Income or as Expense: _determine_type never returns SKIP
\* for it.
C13_SkipUnreachable ==
    last.called =>
        \A i \in RowIdx :
            LET tx == last.transactions[i]
                amount == parse_amount(tx.amount)
            IN  (/\ tx.status = "OK"
                 /\ ~InList(tx.description, last.config.skip_descriptions)
                 /\ ~EqZero(amount)) =>
                    /\ _determine_type(last.config, amount, tx.category) # SKIP
                    /\ Kept(i)
                    /\ last.rows[i].ret.transaction_type \in {INCOME, EXPENSE}

\* C14: every transaction a call emits has the owner the store held when
\* the call was made, the date parse_date gives for the row's
\* operation_date, the absolute value of the row's parsed amount, and an
\* empty comment.
C14_EmittedShape ==
    last.called =>
        \A i \in RowIdx :
            Kept(i) =>
                LET tx == last.transactions[i]
                    amount == parse_amount(tx.amount)
                    out == last.rows[i].ret
                IN  /\ out.owner = last.config.owner
                    /\ out.date = parse_date(tx.operation_date)
                    /\ out.amount.kind = amount.kind
                    /\ out.amount.k = amount.k
                    /\ out.amount.m = IF amount.m < 0 THEN -amount.m ELSE amount.m
                    /\ out.comment = ""

\* after the owner was changed, the row "2025-12-28", "-4363,00" is emitted
\* with the new owner, the date "28.12.2025" and the amount 4363
C14_Witness ==
    /\ last.called
    /\ config.owner = "Anna"
    /\ \E i \in RowIdx :
        /\ last.transactions[i].operation_date = DateIso
        /\ last.transactions[i].amount = AmtNeg
        /\ Kept(i)
        /\ last.rows[i].ret.owner = "Anna"
        /\ last.rows[i].ret.date = <<"2", "8", ".", "1", "2", ".", "2", "0", "2", "5">>
        /\ last.rows[i].ret.amount = Fin(4363, 0)
        /\ last.rows[i].ret.comment = ""

\* C15: a convert call on any list of rows returns: no exception leaves it,
\* every row of the list was handled, and the returned list holds the
\* emitted rows (possibly none).
C15_ConvertCompletes ==
    last.called =>
        /\ ~last.raised
        /\ Len(last.rows) = Len(last.transactions)
        /\ Len(last.result) = Cardinality({i \in RowIdx : Kept(i)})

\* a call on a row whose amount float() rejects, dropped, and a row whose
\* date parse_date cannot rewrite, emitted with that date
C15_Witness ==
    /\ last.called
    /\ \E i, j \in RowIdx :
        /\ last.transactions[i].status = "OK"
        /\ last.transactions[i].amount = AmtJunk
        /\ ~ParseFloat(AmtJunk).ok
        /\ ~Kept(i)
        /\ last.transactions[j].operation_date = DateJunk
        /\ Kept(j)
        /\ last.result = <<last.rows[j].ret>>
        /\ last.rows[j].ret.date = DateJunk

\* C16: for every split of the rows of a call into A ++ B, the list the
\* call returns is the list a call on A returns followed by the list a
\* call on B returns, on the same store; each row is emitted as it is
\* when converted alone.
C16_RowIndependence ==
    last.called =>
        LET txs == last.transactions
            n == Len(txs)
        IN  /\ \A k \in 0..n :
                   last.result
                       = convert(last.config, NewConverter, SubSeq(txs, 1, k)).result
                           \o convert(last.config, NewConverter, SubSeq(txs, k + 1, n)).result
            /\ \A i \in RowIdx :
                   last.rows[i].ret
                       = _convert_single(last.config, NewConverter, txs[i]).ret

\* two emitted rows of one unmapped category, emitted differently, and in
\* the order of the rows
C16_Witness ==
    /\ last.called
    /\ Len(last.transactions) = 2
    /\ Fallback(1) /\ Fallback(2)
    /\ last.transactions[1].category = last.transactions[2].category
    /\ last.rows[2].added = <<>>
    /\ last.rows[1].ret # last.rows[2].ret
    /\ last.result = <<last.rows[1].ret, last.rows[2].ret>>

\* C17: a step that is a convert call leaves every field of the store
\* (owner, output_tags, category_mappings, vendor_overrides,
\* skip_descriptions, income_categories) and the config file as they were;
\* the store and the file change only in steps that are no convert call.
C17_ConvertReadOnly ==
    [][(last' # last) => (config' = config /\ file' = file)]_vars

\* after an upsert saved the store, a call returned an unresolved category;
\* the store still has no mapping for it and the file is the one the
\* upsert wrote
C17_Witness ==
    /\ last.called
    /\ \E k \in 1..Len(last.unknowns) :
        /\ last.unknowns[k].mapping_type = "category"
        /\ last.unknowns[k].original_value \notin DOMAIN config.category_mappings
    /\ config = last.config
    /\ file = save(config)
    /\ config.owner = "Kirill"

\* ------------------------------------------------------------------------
\* The last output of the writer, section by section
\* ------------------------------------------------------------------------
\* the data rows of the section of a title: the rows of six fields that
\* follow the title row and the header row
DataRows(lines, title) ==
    LET titles == {i \in 1..Len(lines) : Len(lines[i]) = 1 /\ lines[i] = <<title>>}
    IN  IF titles = {} THEN <<>>
        ELSE LET first == 2 + CHOOSE i \in titles : TRUE
                 end == CHOOSE e \in (first - 1)..Len(lines) :
                            /\ \A j \in first..e : Len(lines[j]) = 6
                            /\ e = Len(lines) \/ Len(lines[e + 1]) # 6
             IN  SubSeq(lines, first, end)

\* the dates of the data rows of a section of the last output
SectionDates(title) ==
    LET rows == DataRows(output.lines, title) IN [p \in 1..Len(rows) |-> rows[p][2]]

\* a string DD.MM.YYYY of a day 01..31 and a month 01..12
ValidDate(d) ==
    /\ Len(d) = 10
    /\ d[3] = "." /\ d[6] = "."
    /\ \A i \in {1, 2, 4, 5, 7, 8, 9, 10} : IsDigit(d[i])
    /\ ToNat(SubSeq(d, 1, 2)) \in 1..31
    /\ ToNat(SubSeq(d, 4, 5)) \in 1..12

\* the calendar date of a is before that of b, both valid
EarlierDate(a, b) ==
    LET ya == ToNat(SubSeq(a, 7, 10))
        yb == ToNat(SubSeq(b, 7, 10))
        ma == ToNat(SubSeq(a, 4, 5))
        mb == ToNat(SubSeq(b, 4, 5))
        da == ToNat(SubSeq(a, 1, 2))
        db == ToNat(SubSeq(b, 1, 2))
    IN  ya < yb \/ (ya = yb /\ (ma < mb \/ (ma = mb /\ da < db)))

\* C18: in the Income section and in the Expense section of an output, of
\* two rows whose dates are valid DD.MM.YYYY strings the one of the earlier
\* calendar date (year, then month, then day) is never written second.
C18_SortCorrectness ==
    output.method # "none" =>
        \A title \in {"Dohod", "Rashod"} :
            LET dates == SectionDates(title) IN
            \A p, q \in 1..Len(dates) :
                (p < q /\ ValidDate(dates[p]) /\ ValidDate(dates[q])) =>
                    ~EarlierDate(dates[q], dates[p])

\* the expenses of 27.12.2025, 01.01.2026, 05.12.2025, in this order, are
\* written as 05.12.2025, 27.12.2025, 01.01.2026
C18_Witness ==
    /\ output.method = "write"
    /\ ~output.raised
    /\ [i \in 1..Len(output.transactions) |-> output.transactions[i].date]
           = <<DateRu, DateNewYear, DateEarly>>
    /\ \A i \in 1..Len(output.transactions) :
           output.transactions[i].transaction_type = EXPENSE
    /\ SectionDates("Rashod") = <<DateEarly, DateRu, DateNewYear>>

\* the date consists of three dot-separated parts that int() accepts
ParsesAsThreeInts(d) ==
    /\ d # <<>>
    /\ Len(Split(d, ".")) = 3
    /\ \A i \in 1..3 : ParseInt(Split(d, ".")[i]).ok

\* C19: every date that is empty or does not parse as three dot-separated
\* integers has the sort key (0, 0, 0), and in each section of an output
\* every row of such a date is written before every row whose date parses
\* as three dot-separated integers.
C19_UnparseableFirst ==
    output.method # "none" =>
        \A title \in {"Dohod", "Rashod"} :
            LET dates == SectionDates(title) IN
            \A p, q \in 1..Len(dates) :
                (~ParsesAsThreeInts(dates[p]) /\ ParsesAsThreeInts(dates[q])) =>
                    /\ _parse_date_for_sort(dates[p]) = <<0, 0, 0>>
                    /\ p < q

\* the row the writer writes for a transaction
RowOf(tx) ==
    <<tx.owner, tx.date, _format_amount(tx.amount).val, tx.purpose, tx.tag, tx.comment>>

\* how often x occurs in the sequence s
Count(s, x) == Cardinality({i \in 1..Len(s) : s[i] = x})

\* C20: the data rows of the Income section of an output are the rows of
\* the Income transactions of its argument, each as often as it occurs
\* there, the same for the Expense section, and the two sections together
\* have as many data rows as the argument has transactions.
C20_BucketingLosesNothing ==
    output.method # "none" =>
        LET income == DataRows(output.lines, "Dohod")
            expenses == DataRows(output.lines, "Rashod")
            expected(t) == [i \in 1..Len(OfType(output.transactions, t)) |->
                               RowOf(OfType(output.transactions, t)[i])]
        IN  /\ \A i \in 1..Len(expected(INCOME)) :
                   Count(income, expected(INCOME)[i])
                       = Count(expected(INCOME), expected(INCOME)[i])
            /\ \A i \in 1..Len(expected(EXPENSE)) :
                   Count(expenses, expected(EXPENSE)[i])
                       = Count(expected(EXPENSE), expected(EXPENSE)[i])
            /\ Len(income) + Len(expenses) = Len(output.transactions)

\* C29: the returned unresolved list has a vendor entry only when
\* "Perevody" has no entry in category_mappings, and every vendor entry
\* comes after the entry (category, "Perevody") of the same list.
C29_VendorNeedsUnmappedTransfer ==
    last.called =>
        \A k \in UnknownsOfType("vendor") :
            /\ "Perevody" \notin DOMAIN last.config.category_mappings
            /\ \E j \in 1..(k - 1) :
                   UnknownKey(last.unknowns[j]) = <<"category", "Perevody">>

\* a call on a store without mapping for "Perevody" returns, for a transfer
\* row without override, the category entry and then the vendor entry
C29_Witness ==
    /\ last.called
    /\ "Perevody" \notin DOMAIN last.config.category_mappings
    /\ \E i \in RowIdx :
        /\ Fallback(i)
        /\ last.transactions[i].category = "Perevody"
        /\ last.transactions[i].description = "Ivan I."
    /\ last.unknowns = <<UnknownMapping("category", "Perevody", "Neizvestno", ""),
                         UnknownMapping("vendor", "Ivan I.", "Neizvestno", "Ivan I.")>>

\* ------------------------------------------------------------------------
\* The functions of one argument: what a call returned
\* ------------------------------------------------------------------------
\* s is an optional minus sign and digits, and reads as the integer n
IsIntegerString(s, n) ==
    LET digits == IF s # <<>> /\ Head(s) = "-" THEN Tail(s) ELSE s IN
    /\ digits # <<>> /\ AllDigits(digits)
    /\ ToNat(digits) = (IF n < 0 THEN -n ELSE n)
    /\ (Head(s) = "-") <=> (n < 0)

\* s is an integer part, a comma and exactly two digits
HasTwoDecimals(s) ==
    LET n == Len(s)
        whole == SubSeq(s, 1, n - 3)
        digits == IF whole # <<>> /\ Head(whole) = "-" THEN Tail(whole) ELSE whole
    IN  /\ n >= 4
        /\ digits # <<>> /\ AllDigits(digits)
        /\ s[n - 2] = ","
        /\ IsDigit(s[n - 1]) /\ IsDigit(s[n])

\* C21: _format_amount returns the bare integer string when the amount has
\* a zero fractional part, and otherwise a string of exactly two fractional
\* digits after a comma; what it returns never contains a period.
C21_FormatAmount ==
    (call.name = "_format_amount" /\ call.returned) =>
        /\ ~call.ret.raised
        /\ ~Contains(call.ret.val, ".")
        /\ IF call.arg.kind = "fin" /\ call.arg.k = 0
           THEN IsIntegerString(call.ret.val, call.arg.m)
           ELSE HasTwoDecimals(call.ret.val)

\* the characters of the cell that are no thousands separators, without
\* the quotes that wrap the cell
Significant(amount_str) ==
    SelectSeq(StripChars(amount_str, {Quote}), LAMBDA c : c \notin {Space, Nbsp})

\* s is a number: an optional sign, digits and at most one decimal
\* separator, with at least one digit
IsNumber(s) ==
    LET body == IF s # <<>> /\ Head(s) \in {"+", "-"} THEN Tail(s) ELSE s
        separators == {i \in 1..Len(body) : body[i] \in {",", "."}}
    IN  /\ \A i \in 1..Len(body) : IsDigit(body[i]) \/ i \in separators
        /\ Cardinality(separators) <= 1
        /\ Cardinality(separators) < Len(body)

\* the value of the number s
NumberValue(s) ==
    LET body == IF Head(s) \in {"+", "-"} THEN Tail(s) ELSE s
        digits == SelectSeq(body, IsDigit)
        places == Len(body) - FirstIndex(ReplaceChar(body, ",", "."), ".")
    IN  Fin((IF Head(s) = "-" THEN -1 ELSE 1) * ToNat(digits),
            IF places < 0 THEN 0 ELSE places)

DigitsAt(s, ps) == \A i \in ps : IsDigit(s[i])

\* s has the format DD.MM.YYYY
IsDayMonthYear(s) ==
    /\ Len(s) = 10
    /\ s[3] = "." /\ s[6] = "."
    /\ DigitsAt(s, {1, 2, 4, 5, 7, 8, 9, 10})

\* s has the format DD.MM.YYYY HH:MM:SS
IsDayMonthYearTime(s) ==
    /\ Len(s) = 19
    /\ IsDayMonthYear(SubSeq(s, 1, 10))
    /\ s[11] = Space
    /\ s[14] = ":" /\ s[17] = ":"
    /\ DigitsAt(s, {12, 13, 15, 16, 18, 19})

\* s has the format YYYY-MM-DD
IsYearMonthDay(s) ==
    /\ Len(s) = 10
    /\ s[5] = "-" /\ s[8] = "-"
    /\ DigitsAt(s, {1, 2, 3, 4, 6, 7, 9, 10})

\* C23: parse_date returns a DD.MM.YYYY string unchanged, the part before
\* the first space of a DD.MM.YYYY HH:MM:SS string, and the day, the month
\* and the year of a YYYY-MM-DD string in the format DD.MM.YYYY.
C23_AcceptedFormats ==
    (call.name = "parse_date" /\ call.returned) =>
        /\ IsDayMonthYear(call.arg) => call.ret = call.arg
        /\ IsDayMonthYearTime(call.arg) => call.ret = SubSeq(call.arg, 1, 10)
        /\ IsYearMonthDay(call.arg) =>
               call.ret = <<call.arg[9], call.arg[10], ".", call.arg[6], call.arg[7], ".",
                            call.arg[1], call.arg[2], call.arg[3], call.arg[4]>>

\* "2025-12-28" was given and "28.12.2025" returned
C23_Witness ==
    /\ call.name = "parse_date" /\ call.returned
    /\ call.arg = DateIso
    /\ call.ret = <<"2", "8", ".", "1", "2", ".", "2", "0", "2", "5">>

\* C24: parse_date returns every string that has none of the three
\* accepted formats unchanged, and the empty string for the empty string.
\* (That it never raises is the shape of the model: the call returns a
\* string.)
C24_PassThrough ==
    (call.name = "parse_date" /\ call.returned) =>
        /\ call.arg = <<>> => call.ret = <<>>
        /\ ~(IsDayMonthYear(call.arg) \/ IsDayMonthYearTime(call.arg)
                \/ IsYearMonthDay(call.arg)) => call.ret = call.arg

\* ------------------------------------------------------------------------
\* The window: what a run of the convert handler did
\* ------------------------------------------------------------------------
\* C25: when the first pass of a run returned unresolved entries and the
\* dialog persisted a resolution for each of them, with whatever tags, the
\* second pass on the same rows returned an empty unresolved list.
C25_TwoPassConvergence ==
    (app.constructed /\ app.run.saved) =>
        /\ app.run.first_unknowns # <<>>
        /\ app.run.passes = 2
        /\ last.transactions = app.run.transactions
        /\ last.unknowns = <<>>

\* a transfer and a category the store lacked gave three entries, a
\* category one and a vendor one among them; they were saved, and the
\* second pass returned none
C25_Witness ==
    /\ app.constructed /\ app.run.saved
    /\ Len(app.run.first_unknowns) = 3
    /\ \E i, j \in 1..3 : /\ app.run.first_unknowns[i].mapping_type = "category"
                          /\ app.run.first_unknowns[j].mapping_type = "vendor"
    /\ "Puteshestviya" \in DOMAIN config.category_mappings
    /\ "Ivan I." \in DOMAIN config.vendor_overrides
    /\ last.unknowns = <<>>

\* a run of the handler that showed the dialog and saw it closed unsaved
RunSkipped == app.constructed /\ app.run.shown /\ ~app.run.saved

\* C30: a run of the convert handler whose dialog is closed with skip or
\* with the close button adds no category mapping and no vendor override
\* and saves nothing, runs no second pass, and shows the output of the
\* first pass, in which every row resolved by neither table has the tag
\* "Neizvestno".
C30_SkipChangesNothing ==
    /\ [][(RunSkipped' /\ (app' # app \/ last' # last)) =>
              /\ config'.category_mappings = config.category_mappings
              /\ config'.vendor_overrides = config.vendor_overrides
              /\ file' = file]_vars
    /\ [](RunSkipped =>
              /\ app.run.passes = 1
              /\ last.unknowns # <<>> /\ last.unknowns = app.run.first_unknowns
              /\ app.converted_transactions = app.run.first_result
              /\ app.converted_transactions = last.result
              /\ \A i \in RowIdx : Fallback(i) => last.rows[i].ret.tag = "Neizvestno")

\* the dialog of a transfer the store does not map was skipped: the file
\* is as it was loaded, the store still lacks the category and the vendor,
\* and the transfer is shown with the tag "Neizvestno"
C30_Witness ==
    /\ RunSkipped
    /\ Len(app.run.first_unknowns) = 2
    /\ file = AsLoaded
    /\ "Perevody" \notin DOMAIN config.category_mappings
    /\ "Ivan I." \notin DOMAIN config.vendor_overrides
    /\ Len(app.converted_transactions) = 1
    /\ app.converted_transactions[1].tag = "Neizvestno"

\* C26: whenever export and copy are enabled, converted_transactions is
\* the conversion of the raw_transactions now loaded (by the store of the
\* last pass), so that export never writes the conversion of a file loaded
\* earlier.
C26_ExportMatchesLoaded ==
    (app.constructed /\ app.export_btn = "normal") =>
        app.converted_transactions
            = convert(last.config, NewConverter, transactions).result

\* ------------------------------------------------------------------------
\* ConfigManager: what a construction and what a method changed
\* ------------------------------------------------------------------------
\* the methods of ConfigManager that change _data in place
Mutators ==
    {"add_category_mapping", "add_vendor_override",
     "add_skip_description", "remove_skip_description"}

\* C27: a ConfigManager constructed on the path of a saved configuration
\* holds exactly the saved category_mappings and vendor_overrides: an
\* entry deleted before the save is absent, no default entry is put in
\* its place.
C27_SaveLoadRoundTrip ==
    [][(heap'.op.name = "__init__" /\ heap' # heap /\ file.written) =>
           /\ Data(heap', heap'.op.instance).category_mappings
                  = file.data.category_mappings
           /\ Data(heap', heap'.op.instance).vendor_overrides
                  = file.data.vendor_overrides]_vars

\* C28: add_category_mapping, add_vendor_override, add_skip_description
\* and remove_skip_description on one instance leave DEFAULT_CONFIG and
\* the data of every other instance unchanged, also when the instance was
\* constructed while no config file existed.
C28_InstancesIsolated ==
    [][(heap'.op.name \in Mutators /\ heap' # heap) =>
           /\ heap'.DEFAULT_CONFIG = heap.DEFAULT_CONFIG
           /\ \A j \in Instances \ {heap'.op.instance} :
                  heap.instances[j].created => Data(heap', j) = Data(heap, j)]_vars

====
